---- MODULE Spec2Model ----
(***************************************************************************)
(* A model of `dirty` (src/src/main.rs): the depth-bounded discovery of    *)
(* git repositories below a scan root (find_repos / collect_repos), their  *)
(* classification on a worker pool (inspect_repo / ahead_of_upstream) and  *)
(* the filtering and reporting done by run.                                *)
(*                                                                         *)
(* A path is a sequence of components; the file system is a function from  *)
(* the paths that exist to what lies there.  The git backend is a function *)
(* from repository paths to the outcome of each query inspect_repo makes.  *)
(***************************************************************************)
EXTENDS Integers, Sequences, FiniteSets, TLC

VARIABLES
    fs,        \* the file system below the scan root
    backend,   \* what git answers for each repository
    args,      \* Args
    pc,        \* where run is: "start", "find", "inspect", "done"
    stack,     \* the calls of collect_repos in progress
    repos,     \* the vector collect_repos fills and find_repos returns
    calls,     \* history: how often collect_repos was called on each path
    handle,    \* per worker, the Repository its inspect_repo opened
    item,      \* per worker, the index in repos it works on (0: none)
    results,   \* per index in repos, what the pipeline made of it
    finished,  \* history: the indices in the order their work completed
    infos,     \* the collected vector
    outcome,   \* "running", "ok", or the error run returned
    output     \* the lines printed

vars == <<fs, backend, args, pc, stack, repos, calls, handle, item, results,
          finished, infos, outcome, output>>

----------------------------------------------------------------------------
(* Bounds of the model *)

\* entries below the scan root in the trees discovery runs on
MaxEntries == 3
\* discovery runs with -L from 0 to MaxDepthArg
MaxDepthArg == 2
\* repositories below the scan root in the trees classification runs on
MaxRepos == 2
\* threads of the worker pool
NumWorkers == 2
\* the backend reports 0 .. MaxStatus status entries
MaxStatus == 1
\* the backend reports 0 .. MaxRemotes remotes
MaxRemotes == 1
\* the backend reports 0 .. MaxAhead commits ahead of the upstream
MaxAhead == 1

(* Program constants *)

\* default of -L
DefaultDepth == 3
\* the fallible steps of ahead_of_upstream: head, target, shorthand,
\* find_branch, upstream, upstream target, graph_ahead_behind
AheadSteps == 7

----------------------------------------------------------------------------
(* Option<T> *)

None == [some |-> FALSE]
Some(v) == [some |-> TRUE, val |-> v]
UnwrapOr(o, d) == IF o.some THEN o.val ELSE d

----------------------------------------------------------------------------
(* Paths *)

\* the canonical scan root
Base == <<0>>

Parent(p) == SubSeq(p, 1, Len(p) - 1)
Join(p, n) == Append(p, n)
FileName(p) == p[Len(p)]

\* Path::strip_prefix(base).unwrap_or(path)
StripPrefix(p, base) ==
    IF Len(base) <= Len(p) /\ SubSeq(p, 1, Len(base)) = base
    THEN SubSeq(p, Len(base) + 1, Len(p))
    ELSE p

\* Ord of PathBuf: component by component, a proper prefix first
RECURSIVE PathLess(_, _)
PathLess(a, b) ==
    IF a = <<>> THEN b # <<>>
    ELSE IF b = <<>> THEN FALSE
    ELSE IF Head(a) # Head(b) THEN Head(a) < Head(b)
    ELSE PathLess(Tail(a), Tail(b))

RECURSIVE InsertSorted(_, _)
InsertSorted(p, s) ==
    IF s = <<>> THEN <<p>>
    ELSE IF PathLess(Head(s), p) THEN <<Head(s)>> \o InsertSorted(p, Tail(s))
    ELSE <<p>> \o s

\* Vec<PathBuf>::sort
\* a find_repos that does not sort
NoSort(s) == s

RECURSIVE SortPaths(_)
SortPaths(s) == IF s = <<>> THEN <<>> ELSE InsertSorted(Head(s), SortPaths(Tail(s)))

----------------------------------------------------------------------------
(* The file system *)

Dir == [kind |-> "dir", git |-> FALSE, target |-> <<>>]
RepoDir == [kind |-> "dir", git |-> TRUE, target |-> <<>>]
Locked == [kind |-> "locked", git |-> FALSE, target |-> <<>>]
File == [kind |-> "file", git |-> FALSE, target |-> <<>>]
Link(t) == [kind |-> "link", git |-> FALSE, target |-> t]

Exists(p) == p \in DOMAIN fs

\* the directory a path names once the symlinks in it are followed, or <<>>
RECURSIVE Resolve(_)
Resolve(p) ==
    IF p = Base THEN (IF Exists(Base) THEN Base ELSE <<>>)
    ELSE LET d == Resolve(Parent(p))
             e == Join(d, FileName(p))
         IN IF d = <<>> \/ ~Exists(e) THEN <<>>
            ELSE IF fs[e].kind = "link"
                 THEN (IF fs[e].target = e THEN <<>> ELSE fs[e].target)
                 ELSE IF fs[e].kind = "file" THEN <<>> ELSE e

\* the entry a path names, its last component not followed (lstat), or <<>>
Lstat(p) ==
    IF p = Base THEN (IF Exists(Base) THEN Base ELSE <<>>)
    ELSE LET d == Resolve(Parent(p))
             e == Join(d, FileName(p))
         IN IF d = <<>> \/ ~Exists(e) THEN <<>> ELSE e

\* Path::is_dir: follows symlinks
IsDir(p) == Resolve(p) # <<>>

\* Path::is_symlink
IsSymlink(p) == Lstat(p) # <<>> /\ fs[Lstat(p)].kind = "link"

\* dir.join(".git").exists()
HasGit(dir) == Resolve(dir) # <<>> /\ fs[Resolve(dir)].git

\* fs::read_dir(dir) fails
ReadDirFails(dir) == Resolve(dir) = <<>> \/ fs[Resolve(dir)].kind # "dir"

\* the paths fs::read_dir(dir) yields: dir joined with each name in it
ReadDir(dir) ==
    LET d == Resolve(dir)
    IN {Join(dir, FileName(e)) : e \in {x \in DOMAIN fs : x # Base /\ Parent(x) = d}}

----------------------------------------------------------------------------
(* Discovery: find_repos and collect_repos *)

\* a depth guard that is off by one
DepthExceededOffByOne(depth, max_depth) == depth >= max_depth

\* depth > max_depth
DepthExceeded(depth, max_depth) == depth > max_depth

\* a collect_repos that records a repository and still descends into it
CollectAtNoPrune(dir, max_depth, depth) ==
    IF depth > max_depth THEN [push |-> FALSE, loop |-> FALSE]
    ELSE [push |-> HasGit(dir), loop |-> ~ReadDirFails(dir)]

\* what collect_repos does at dir before it looks at the entries: whether it
\* pushes dir, and whether it goes on to the loop over the entries
CollectAt(dir, max_depth, depth) ==
    IF DepthExceeded(depth, max_depth) THEN [push |-> FALSE, loop |-> FALSE]
    ELSE IF HasGit(dir) THEN [push |-> TRUE, loop |-> FALSE]
    ELSE IF ReadDirFails(dir) THEN [push |-> FALSE, loop |-> FALSE]
    ELSE [push |-> FALSE, loop |-> TRUE]

\* a walk that follows symlinks to directories
ShouldDescendFollow(path) == IsDir(path)

\* path.is_dir() && !path.is_symlink()
ShouldDescend(path) == IsDir(path) /\ ~IsSymlink(path)

Frame(dir, depth) == [dir |-> dir, depth |-> depth, mode |-> "enter", pending |-> {}]

Top == stack[Len(stack)]
Pop == SubSeq(stack, 1, Len(stack) - 1)

Todo == [state |-> "todo", info |-> None, kept |-> FALSE]

\* collect_repos returns having left rs in the vector; when it is the outermost
\* call, find_repos sorts the vector and run goes on to the classification
Return(rs) ==
    /\ stack' = Pop
    /\ IF Len(stack) = 1
       THEN /\ repos' = SortPaths(rs)
            /\ pc' = "inspect"
            /\ results' = [i \in 1..Len(rs) |-> Todo]
       ELSE /\ repos' = rs
            /\ UNCHANGED <<pc, results>>

\* run: canonicalize the scan root, then call find_repos
RunStart ==
    /\ pc = "start"
    /\ IF Exists(Base)
       THEN /\ pc' = "find"
            /\ stack' = <<Frame(Base, 0)>>
            /\ UNCHANGED <<outcome>>
       ELSE /\ pc' = "done"
            /\ outcome' = "cannot_access"
            /\ UNCHANGED <<stack>>
    /\ UNCHANGED <<fs, backend, args, repos, calls, handle, item, results, finished,
                   infos, output>>

\* collect_repos, from its entry to the start of the loop over the entries
CollectEnter ==
    /\ pc = "find"
    /\ stack # <<>>
    /\ Top.mode = "enter"
    /\ calls' = IF Top.dir \in DOMAIN calls
                THEN [calls EXCEPT ![Top.dir] = @ + 1]
                ELSE calls @@ (Top.dir :> 1)
    /\ LET act == CollectAt(Top.dir, args.depth, Top.depth)
           rs == IF act.push THEN Append(repos, Top.dir) ELSE repos
       IN IF act.loop
          THEN /\ stack' = [stack EXCEPT ![Len(stack)] =
                               [Top EXCEPT !.mode = "loop", !.pending = ReadDir(Top.dir)]]
               /\ repos' = rs
               /\ UNCHANGED <<pc, results>>
          ELSE Return(rs)
    /\ UNCHANGED <<fs, backend, args, handle, item, finished, infos, outcome, output>>

\* one iteration of the loop of collect_repos, the entries in any order
CollectNext ==
    /\ pc = "find"
    /\ stack # <<>>
    /\ Top.mode = "loop"
    /\ IF Top.pending = {}
       THEN Return(repos)
       ELSE \E path \in Top.pending :
              LET rest == [stack EXCEPT ![Len(stack)] =
                              [Top EXCEPT !.pending = Top.pending \ {path}]]
              IN /\ stack' = IF ShouldDescend(path)
                             THEN Append(rest, Frame(path, Top.depth + 1))
                             ELSE rest
                 /\ UNCHANGED <<repos, pc, results>>
    /\ UNCHANGED <<fs, backend, args, calls, handle, item, finished, infos, outcome, output>>

----------------------------------------------------------------------------
(* Classification: inspect_repo and ahead_of_upstream *)

\* What the git backend answers for one repository: open succeeds or not; the
\* number of status entries, of remotes (-1: the query fails); the first step
\* of ahead_of_upstream that fails (0: none) and the commits ahead.
Facts(open, status, remotes, aheadFail, ahead) ==
    [open |-> open, status |-> status, remotes |-> remotes,
     aheadFail |-> aheadFail, ahead |-> ahead]

\* Repository::open(path).ok(): the handle is the repository's directory
RepositoryOpen(path) ==
    IF Resolve(path) \in DOMAIN backend /\ backend[Resolve(path)].open
    THEN Some(Resolve(path))
    ELSE None

\* repo.statuses(..).ok() mapped to !is_empty()
Dirty(repo) ==
    IF backend[repo].status < 0 THEN None ELSE Some(backend[repo].status # 0)

\* a failed listing of the remotes taken to mean that there are remotes
LocalOnlyStrict(repo) == backend[repo].remotes = 0

\* repo.remotes().ok().is_none_or(|r| r.is_empty())
LocalOnly(repo) ==
    IF backend[repo].remotes < 0 THEN TRUE ELSE backend[repo].remotes = 0

\* an ahead_of_upstream that answers zero when a step fails
AheadOfUpstreamOrZero(repo) ==
    IF backend[repo].aheadFail \in 1..AheadSteps THEN Some(0)
    ELSE Some(backend[repo].ahead)

\* ahead_of_upstream: each of its steps returns None when it fails
AheadOfUpstream(repo) ==
    IF backend[repo].aheadFail \in 1..AheadSteps THEN None
    ELSE Some(backend[repo].ahead)

RepoInfo(path, dirty, local_only, ahead) ==
    [path |-> path, dirty |-> dirty, local_only |-> local_only, ahead |-> ahead]

\* an inspect_repo that gives up when the remotes cannot be listed
InspectOpenedStrict(opened, path, compute_unpushed) ==
    IF ~opened.some THEN None
    ELSE IF ~Dirty(opened.val).some THEN None
    ELSE IF backend[opened.val].remotes < 0 THEN None
    ELSE Some(RepoInfo(path,
                       Dirty(opened.val).val,
                       LocalOnly(opened.val),
                       IF compute_unpushed THEN AheadOfUpstream(opened.val) ELSE None))

\* inspect_repo after Repository::open: opened is the Option it left
InspectOpened(opened, path, compute_unpushed) ==
    IF ~opened.some THEN None
    ELSE IF ~Dirty(opened.val).some THEN None
    ELSE Some(RepoInfo(path,
                       Dirty(opened.val).val,
                       LocalOnly(opened.val),
                       IF compute_unpushed THEN AheadOfUpstream(opened.val) ELSE None))

\* inspect_repo
InspectRepo(path, compute_unpushed) ==
    InspectOpened(RepositoryOpen(path), path, compute_unpushed)

\* a filter that takes an absent ahead count for one commit ahead
KeepAbsentAsOne(i) ==
    /\ ~args.dirty \/ i.dirty
    /\ ~args.local \/ i.local_only
    /\ ~args.unpushed \/ UnwrapOr(i.ahead, 1) > 0

\* the closure of .filter in run
Keep(i) ==
    /\ ~args.dirty \/ i.dirty
    /\ ~args.local \/ i.local_only
    /\ ~args.unpushed \/ UnwrapOr(i.ahead, 0) > 0

Workers == 1..NumWorkers

\* one Repository shared by the pool: the one a worker holds open
RepoOfShared(w) ==
    IF \E v \in 1..NumWorkers : handle[v].some
    THEN handle[CHOOSE v \in 1..NumWorkers : handle[v].some]
    ELSE None

\* the Repository a worker's call of inspect_repo holds
RepoOf(w) == handle[w]

\* the slot of the collected vector a worker's item goes to
SlotOf(w) == item[w]

\* a worker takes an item no worker has taken and opens its repository
InspectOpen(w) ==
    /\ pc = "inspect"
    /\ item[w] = 0
    /\ \E i \in DOMAIN results :
         /\ results[i].state = "todo"
         /\ item' = [item EXCEPT ![w] = i]
         /\ handle' = [handle EXCEPT ![w] = RepositoryOpen(repos[i])]
         /\ results' = [results EXCEPT ![i].state = "busy"]
    /\ UNCHANGED <<fs, backend, args, pc, stack, repos, calls, finished, infos, outcome,
                   output>>

\* the worker finishes inspect_repo and applies the filter to what it returned
InspectFinish(w) ==
    /\ pc = "inspect"
    /\ item[w] # 0
    /\ LET info == InspectOpened(RepoOf(w), repos[item[w]], args.unpushed)
       IN results' = [results EXCEPT ![SlotOf(w)] =
                         [state |-> "done", info |-> info,
                          kept |-> info.some /\ Keep(info.val)]]
    /\ finished' = Append(finished, item[w])
    /\ item' = [item EXCEPT ![w] = 0]
    /\ handle' = [handle EXCEPT ![w] = None]
    /\ UNCHANGED <<fs, backend, args, pc, stack, repos, calls, infos, outcome, output>>

----------------------------------------------------------------------------
(* run, after the classification *)

\* .collect(): the results kept, in the order of the items
RECURSIVE Collect(_, _)
Collect(rs, i) ==
    IF i > Len(rs) THEN <<>>
    ELSE (IF rs[i].kept THEN <<rs[i].info.val>> ELSE <<>>) \o Collect(rs, i + 1)

\* the two errors the wrong way round
EmptyErrorSwapped(found) == IF found = <<>> THEN "no_matching" ELSE "no_repos"

\* the error run returns when nothing is left to print
EmptyError(found) == IF found = <<>> THEN "no_repos" ELSE "no_matching"

\* the line run prints for one repository
PrintLine(info) ==
    IF args.raw
    THEN [rel |-> StripPrefix(info.path, Base)]
    ELSE [rel |-> StripPrefix(info.path, Base),
          dirty |-> info.dirty,
          local |-> info.local_only,
          unpushed |-> IF args.unpushed THEN Some(UnwrapOr(info.ahead, 0)) ELSE None]

RECURSIVE PrintLines(_)
PrintLines(is) ==
    IF is = <<>> THEN <<>> ELSE <<PrintLine(Head(is))>> \o PrintLines(Tail(is))

RECURSIVE Count(_, _)
Count(is, field) ==
    IF is = <<>> THEN 0
    ELSE (IF Head(is)[field] THEN 1 ELSE 0) + Count(Tail(is), field)

\* the summary line
Summary(is) ==
    [repos |-> Len(is), dirty |-> Count(is, "dirty"), local |-> Count(is, "local_only")]

\* run, once every item is classified: collect, then fail or print
RunReport ==
    /\ pc = "inspect"
    /\ \A i \in DOMAIN results : results[i].state = "done"
    /\ LET is == Collect(results, 1)
       IN /\ infos' = is
          /\ IF is = <<>>
             THEN /\ outcome' = EmptyError(repos)
                  /\ UNCHANGED output
             ELSE /\ outcome' = "ok"
                  /\ output' = PrintLines(is) \o
                               (IF args.raw THEN <<>> ELSE <<Summary(is)>>)
    /\ pc' = "done"
    /\ UNCHANGED <<fs, backend, args, stack, repos, calls, handle, item, results, finished>>

----------------------------------------------------------------------------
(* The inputs *)

\* the strict ancestors of p at or below the scan root
Ancestors(p) == {SubSeq(p, 1, k) : k \in Len(Base)..(Len(p) - 1)}

ChildrenIn(t, d) == {x \in DOMAIN t : x # Base /\ Parent(x) = d}

\* what may lie at a new path p: a directory, a repository, an unreadable
\* directory, a file, a symlink to an ancestor directory or to itself
EntriesAt(p) == {Dir, RepoDir, Locked, File} \cup {Link(t) : t \in Ancestors(p) \cup {p}}

\* t with one more entry, in a directory of t; the names in a directory are
\* 1, 2, ... in the order of PathBuf
Grow(t) ==
    UNION {LET p == Join(d, Cardinality(ChildrenIn(t, d)) + 1)
           IN {t @@ (p :> e) : e \in EntriesAt(p)} :
           d \in {x \in DOMAIN t : t[x].kind = "dir"}}

RECURSIVE TreesUpTo(_)
\* the trees below a scan root that exists, of at most n entries
TreesUpTo(n) ==
    IF n = 0 THEN {Base :> Dir, Base :> RepoDir, Base :> Locked}
    ELSE LET prev == TreesUpTo(n - 1) IN prev \cup UNION {Grow(t) : t \in prev}

\* the repositories of a tree
GitDirs(t) == {x \in DOMAIN t : t[x].git}

\* a repository with a clean work tree, one remote and nothing to push
Healthy == Facts(TRUE, 0, 1, 0, 0)

\* every answer of the backend that inspect_repo can tell apart
AllFacts ==
    {Facts(FALSE, -1, -1, 1, 0), Facts(TRUE, -1, -1, 1, 0)}
    \cup {Facts(TRUE, s, r, f, 0) : s \in 0..MaxStatus, r \in (-1)..MaxRemotes, f \in 1..AheadSteps}
    \cup {Facts(TRUE, s, r, 0, a) : s \in 0..MaxStatus, r \in (-1)..MaxRemotes, a \in 0..MaxAhead}

Flags(depth, dirty, local, unpushed, raw) ==
    [depth |-> depth, dirty |-> dirty, local |-> local, unpushed |-> unpushed, raw |-> raw]

\* the state from which run starts, on tree t with arguments a and backend b
Start(t, a, b) ==
    /\ fs = t
    /\ args = a
    /\ backend = b
    /\ pc = "start"
    /\ stack = <<>>
    /\ repos = <<>>
    /\ calls = <<>>
    /\ handle = [w \in Workers |-> None]
    /\ item = [w \in Workers |-> 0]
    /\ results = <<>>
    /\ finished = <<>>
    /\ infos = <<>>
    /\ outcome = "running"
    /\ output = <<>>

\* discovery: every tree of at most MaxEntries entries (and no scan root at
\* all), every -L up to MaxDepthArg, healthy repositories, no filter
InitWalk ==
    \E t \in TreesUpTo(MaxEntries) \cup {<<>>} :
    \E d \in 0..MaxDepthArg :
        Start(t, Flags(d, FALSE, FALSE, FALSE, FALSE), [r \in GitDirs(t) |-> Healthy])

\* the scan roots holding 0 .. MaxRepos repositories and nothing else
RepoTrees == {[p \in {Base} \cup {Join(Base, n) : n \in 1..k} |->
                  IF p = Base THEN Dir ELSE RepoDir] : k \in 0..MaxRepos}

\* a dirty repository with no remote and no upstream configured
DirtyLocal == Facts(TRUE, 1, 0, 5, 0)

\* a clean repository with a remote and one commit to push
Unpushed == Facts(TRUE, 0, 1, 0, 1)

\* two repositories no filter treats alike
Profiles == {DirtyLocal, Unpushed}

\* the backends of tree t in which one repository answers in any way and each
\* of the others is one of Profiles
BackendsOf(t) ==
    IF GitDirs(t) = {} THEN {<<>>}
    ELSE {[r \in GitDirs(t) |-> IF r = s THEN f ELSE o[r]] :
             <<s, f, o>> \in UNION {{<<s, f, o>> : f \in AllFacts,
                                                  o \in [GitDirs(t) \ {s} -> Profiles]} :
                                    s \in GitDirs(t)}}

\* classification: up to MaxRepos repositories below the scan root, every
\* combination of the filters, every backend of BackendsOf
InitRun ==
    \E t \in RepoTrees :
    \E dirty \in BOOLEAN, local \in BOOLEAN, unpushed \in BOOLEAN, raw \in BOOLEAN :
    \E b \in BackendsOf(t) :
        Start(t, Flags(DefaultDepth, dirty, local, unpushed, raw), b)

Next ==
    \/ RunStart
    \/ CollectEnter
    \/ CollectNext
    \/ \E w \in Workers : InspectOpen(w)
    \/ \E w \in Workers : InspectFinish(w)
    \/ RunReport

\* run on the classification inputs
Spec == InitRun /\ [][Next]_vars

\* run on the discovery inputs
SpecWalk == InitWalk /\ [][Next]_vars

\* the main thread and the threads of the pool keep running
FairSpecWalk == SpecWalk /\ WF_vars(Next)

----------------------------------------------------------------------------
(* Properties *)

\* find_repos has returned
Found == pc \in {"inspect", "done"} /\ outcome # "cannot_access"

\* the depth of a path below the scan root, the root being at depth 0
Depth(p) == Len(p) - Len(Base)

Range(s) == {s[i] : i \in 1..Len(s)}

\* a is a strict ancestor of b
IsStrictPrefix(a, b) == Len(a) < Len(b) /\ SubSeq(b, 1, Len(a)) = a

\* the item at index i went through the pipeline
Done(i) == results[i].state = "done"

\* what the backend answers for the repository at index i
FactsOf(i) == backend[repos[i]]

\* the filter as the specification states it
Passes(info) ==
    /\ ~args.dirty \/ info.dirty
    /\ ~args.local \/ info.local_only
    /\ ~args.unpushed \/ (IF info.ahead.some THEN info.ahead.val ELSE 0) > 0

\* the paths printed, in the order of the lines, below the scan root again
RECURSIVE PrintedPaths(_)
PrintedPaths(lines) ==
    IF lines = <<>> THEN <<>>
    ELSE (IF "rel" \in DOMAIN Head(lines) THEN <<Base \o Head(lines).rel>> ELSE <<>>)
         \o PrintedPaths(Tail(lines))

\* a is b with some of its elements left out
RECURSIVE IsSubseq(_, _)
IsSubseq(a, b) ==
    IF a = <<>> THEN TRUE
    ELSE IF b = <<>> THEN FALSE
    ELSE IF Head(a) = Head(b) THEN IsSubseq(Tail(a), Tail(b))
    ELSE IsSubseq(a, Tail(b))

----------------------------------------------------------------------------
(* C1: find_repos never returns two paths of which one is a strict          *)
(* descendant of the other: a directory with a .git marker inside a         *)
(* recorded repository is not returned.                                     *)
NoNestedRepos ==
    \A i, j \in 1..Len(repos) : ~IsStrictPrefix(repos[i], repos[j])

\* a repository within the depth bound lies inside a repository returned
NestedRepoSkipped ==
    /\ Found
    /\ \E p \in DOMAIN fs, q \in DOMAIN fs :
         /\ fs[p].git /\ fs[q].git
         /\ IsStrictPrefix(p, q)
         /\ Depth(q) <= args.depth
         /\ p \in Range(repos)

\* a tree of readable directories and files, without symlinks
PlainTree == Exists(Base) /\ \A p \in DOMAIN fs : fs[p].kind \in {"dir", "file"}

\* the marker directories within the depth bound, none inside another
ExpectedRepos ==
    {d \in DOMAIN fs : /\ fs[d].git
                       /\ Depth(d) <= args.depth
                       /\ \A a \in Ancestors(d) : ~fs[a].git}

(* C2: on a readable tree without symlinks find_repos returns exactly the   *)
(* directories that hold a .git marker, lie at depth <= max_depth below the *)
(* root (the root at depth 0) and have no ancestor holding a marker.        *)
ExactlyReposWithinDepth ==
    (Found /\ PlainTree) =>
        /\ Range(repos) = ExpectedRepos
        /\ Len(repos) = Cardinality(ExpectedRepos)

\* one repository at depth max_depth is returned, one at max_depth + 1 is not
DepthBoundMet ==
    /\ Found /\ PlainTree
    /\ \E d \in Range(repos) : Depth(d) = args.depth
    /\ \E d \in DOMAIN fs : /\ fs[d].git
                            /\ Depth(d) = args.depth + 1
                            /\ \A a \in Ancestors(d) : ~fs[a].git

(* C3: a classified result is kept by the filter of run iff                 *)
(* (!dirty || isDirty) && (!local || isLocalOnly) &&                        *)
(* (!unpushed || aheadCount.orElse(0) > 0); with unpushed set a result      *)
(* without an ahead count is dropped, with no flag set every result is kept.*)
FilterKeepsExactly ==
    /\ \A i \in DOMAIN results :
         Done(i) =>
           /\ results[i].kept => results[i].info.some
           /\ results[i].info.some =>
                LET info == results[i].info.val
                IN /\ results[i].kept <=> Passes(info)
                   /\ (args.unpushed /\ ~info.ahead.some) => ~results[i].kept
                   /\ (~args.dirty /\ ~args.local /\ ~args.unpushed) => results[i].kept
                   /\ pc = "done" => (info \in Range(infos) <=> Passes(info))
    /\ pc = "done" =>
         \A info \in Range(infos) :
           \E i \in DOMAIN results : results[i].info = Some(info)

\* --unpushed: a repository without an upstream dropped, another one kept
UnpushedFilterActed ==
    /\ pc = "done"
    /\ args.unpushed
    /\ \E i \in DOMAIN results :
         results[i].info.some /\ ~results[i].info.val.ahead.some /\ ~results[i].kept
    /\ \E i \in DOMAIN results : results[i].kept

(* C4: when the scan root resolves, run fails with "No git repos found"     *)
(* iff find_repos returned nothing, fails with "No matching repos found"    *)
(* iff it returned something and no classified result passed the filter,    *)
(* and succeeds, printing at least one repository, otherwise.               *)
OutcomeDecided ==
    (pc = "done" /\ outcome # "cannot_access") =>
        LET passed == \E i \in DOMAIN results :
                        results[i].info.some /\ Passes(results[i].info.val)
        IN /\ outcome \in {"ok", "no_repos", "no_matching"}
           /\ outcome = "no_repos" <=> repos = <<>>
           /\ outcome = "no_matching" <=> (repos # <<>> /\ ~passed)
           /\ outcome = "ok" <=> passed
           /\ outcome = "ok" => PrintedPaths(output) # <<>>
           /\ outcome # "ok" => output = <<>>

\* repositories were found and the filter left none
NothingMatched ==
    /\ pc = "done"
    /\ outcome = "no_matching"
    /\ \E i \in DOMAIN results : results[i].info.some

\* what classifying and filtering the paths one after another collects
RECURSIVE Sequential(_)
Sequential(ps) ==
    IF ps = <<>> THEN <<>>
    ELSE LET r == InspectRepo(Head(ps), args.unpushed)
         IN (IF r.some /\ Keep(r.val) THEN <<r.val>> ELSE <<>>) \o Sequential(Tail(ps))

(* C5: classifying the repositories on the worker pool, in any interleaving *)
(* and completion order, gives the results that classifying them one after  *)
(* another gives: none is changed, dropped or duplicated.                   *)
ConcurrentAsSequential ==
    /\ \A i \in DOMAIN results :
         Done(i) => results[i].info = InspectRepo(repos[i], args.unpushed)
    /\ pc = "done" =>
         /\ Range(infos) = Range(Sequential(repos))
         /\ Len(infos) = Len(Sequential(repos))

\* a later item is classified while an earlier one, which the backend answers
\* differently for, is still being worked on
OutOfOrderCompletion ==
    /\ pc = "inspect"
    /\ \E i \in DOMAIN results, j \in DOMAIN results :
         /\ j < i
         /\ Done(i) /\ results[i].info.some
         /\ results[j].state = "busy"
         /\ FactsOf(i) # FactsOf(j)

(* C6: a repository that does not open, or whose status query fails, is     *)
(* left out and nothing else changes: every other repository is classified  *)
(* and reported, and the scan does not abort; failing to list the remotes   *)
(* or to compute the ahead count never leaves a repository out.             *)
FailuresAbsorbed ==
    /\ \A i \in DOMAIN results :
         Done(i) => (results[i].info.some <=> (FactsOf(i).open /\ FactsOf(i).status >= 0))
    /\ pc = "done" =>
         /\ Len(results) = Len(repos)
         /\ \A i \in DOMAIN results : Done(i)
         /\ \A i \in DOMAIN results :
              (results[i].info.some /\ Passes(results[i].info.val)) =>
                 repos[i] \in Range(PrintedPaths(output))

\* one repository did not open and another one was reported
FailureBesideReport ==
    /\ pc = "done"
    /\ outcome = "ok"
    /\ \E i \in DOMAIN results, j \in DOMAIN results :
         /\ ~FactsOf(i).open
         /\ ~results[i].info.some
         /\ repos[j] \in Range(PrintedPaths(output))

(* C7: for a repository that opens and answers the status query, isDirty is *)
(* true iff there is a status entry, and isLocalOnly is true iff no remote  *)
(* is configured or the remotes cannot be listed, whatever the other is and *)
(* whether or not the ahead count is computed.                              *)
DirtyAndLocalOnly ==
    \A i \in DOMAIN results :
      (Done(i) /\ FactsOf(i).open /\ FactsOf(i).status >= 0) =>
         /\ results[i].info.some
         /\ results[i].info.val.path = repos[i]
         /\ results[i].info.val.dirty <=> FactsOf(i).status > 0
         /\ results[i].info.val.local_only <=> FactsOf(i).remotes <= 0

\* a dirty repository whose remotes cannot be listed is classified
DirtyRemotesUnknown ==
    \E i \in DOMAIN results :
      /\ Done(i)
      /\ FactsOf(i).open /\ FactsOf(i).status > 0 /\ FactsOf(i).remotes < 0
      /\ results[i].info.some

(* C8: a result carries an ahead count only if --unpushed was given and     *)
(* every step of ahead_of_upstream succeeded; without --unpushed, or when a *)
(* step fails, the count is absent, never zero; with --unpushed the count   *)
(* is computed for every repository.                                        *)
AheadOnlyWhenComputed ==
    \A i \in DOMAIN results :
      (Done(i) /\ results[i].info.some) =>
         LET ahead == results[i].info.val.ahead
         IN /\ ahead.some <=> (args.unpushed /\ FactsOf(i).aheadFail = 0)
            /\ ahead.some => ahead.val = FactsOf(i).ahead

\* --unpushed on a repository whose upstream does not resolve
AheadStepFailed ==
    \E i \in DOMAIN results :
      /\ Done(i) /\ results[i].info.some
      /\ args.unpushed
      /\ FactsOf(i).aheadFail > 0
      /\ ~results[i].info.val.ahead.some

\* every call of collect_repos was on a real directory nothing else was
\* called on, by a path without symlinks
NoSymlinkEntered ==
    /\ \A p \in DOMAIN calls : calls[p] = 1 /\ Resolve(p) = p
    /\ \A p \in DOMAIN calls, q \in DOMAIN calls : Resolve(p) = Resolve(q) => p = q

(* C9: collect_repos is called at most once on each real directory and      *)
(* never on a path that leads through a symlink, and find_repos returns:    *)
(* also when the tree holds a symlink to itself or to an ancestor.          *)
WalkTerminates == []NoSymlinkEntered /\ <>(pc = "done")

\* run is over on a tree in which a directory that was read holds a symlink
\* to an ancestor directory
SymlinkPassedBy ==
    /\ pc = "done"
    /\ \E l \in DOMAIN fs :
         /\ fs[l].kind = "link"
         /\ fs[l].target \in Ancestors(l)
         /\ Parent(l) \in DOMAIN calls
         /\ ~HasGit(Parent(l))
         /\ Depth(l) <= args.depth

\* s is in strictly increasing path order
StrictlySorted(s) == \A i \in 1..(Len(s) - 1) : PathLess(s[i], s[i + 1])

(* C10: find_repos returns the repositories in strictly increasing path     *)
(* order whatever the order of the directory entries, and run prints the    *)
(* repositories kept in that order whatever the order in which the          *)
(* classifications complete.                                                *)
ReportInPathOrder ==
    /\ Found => StrictlySorted(repos)
    /\ pc = "done" =>
         /\ IsSubseq(PrintedPaths(output), repos)
         /\ StrictlySorted(PrintedPaths(output))

\* two repositories printed, the second classified first
PrintedAfterReversedCompletion ==
    /\ pc = "done"
    /\ Len(PrintedPaths(output)) >= 2
    /\ Len(finished) >= 2
    /\ finished[1] > finished[2]

====
